---- MODULE Spec2Model ----
(***************************************************************************)
(* Tiered natural-language scene extractor                                 *)
(* (src/natural_language_processor.py, class NaturalLanguageProcessor).    *)
(*                                                                         *)
(* One extract call (process_natural_language_prompt) is a small state     *)
(* machine over the three tiers Remote (_process_with_deepseek), Local     *)
(* (_process_with_local_nlp) and Fallback (_process_with_fallback).        *)
(* Prompts are character strings; the regular expressions of the source   *)
(* are transcribed as syntax trees and run by a backtracking matcher with  *)
(* the semantics of Python's re.  The reply of the completion service is   *)
(* a character string, parsed by a model of json.loads.                    *)
(***************************************************************************)
EXTENDS Integers, Sequences, FiniteSets, TLC

(***************************************************************************)
(* Bounds of the model.                                                    *)
(***************************************************************************)
\* Largest number of pieces a prompt is concatenated from.
MaxPieces == 2
\* Largest number of prose pieces around the body of a reply (before and after it
\* together).
MaxProse == 1
\* Largest number of sentences a text given to the Local tier is made of.
MaxSentences == 2
\* Largest word count and largest number of dialogue lines whose duration is estimated.
MaxWords == 640
MaxLines == 12

(***************************************************************************)
(* Python values.  Every value carries its type tag, so that values of     *)
(* different Python types are comparable.                                  *)
(***************************************************************************)
PyNone == [t |-> "None"]
PyStr(s) == [t |-> "str", v |-> s]
PyInt(n) == [t |-> "int", v |-> n]
\* the float n.0
PyFloat(n) == [t |-> "float", v |-> n, frac |-> ""]
PyBool(b) == [t |-> "bool", v |-> b]
PyList(l) == [t |-> "list", v |-> l]
PyDict(d) == [t |-> "dict", v |-> d]
EmptyDict == PyDict([k \in {} |-> PyNone])

(***************************************************************************)
(* Characters and strings.                                                 *)
(***************************************************************************)
UpperLetters == "ABCDEFGHIJKLMNOPQRSTUVWXYZ"
LowerLetters == "abcdefghijklmnopqrstuvwxyz"
Digits == "0123456789"
Chars(s) == [i \in 1..Len(s) |-> SubSeq(s, i, i)]
CharSet(s) == {SubSeq(s, i, i) : i \in 1..Len(s)}
UpperSet == CharSet(UpperLetters)
LowerSet == CharSet(LowerLetters)
WordChars == UpperSet \cup LowerSet \cup CharSet(Digits) \cup {"_"}
Whitespace == {" ", "\t", "\n", "\r", "\f"}
LowerMap == [c \in UpperSet |-> SubSeq(LowerLetters, CHOOSE i \in 1..26 : SubSeq(UpperLetters, i, i) = c, CHOOSE i \in 1..26 : SubSeq(UpperLetters, i, i) = c)]
ToLower(c) == IF c \in UpperSet THEN LowerMap[c] ELSE c
Min2(a, b) == IF a < b THEN a ELSE b
Max2(a, b) == IF a > b THEN a ELSE b

ToUpper(c) == IF c \in LowerSet THEN SubSeq(UpperLetters, CHOOSE i \in 1..26 : SubSeq(LowerLetters, i, i) = c, CHOOSE i \in 1..26 : SubSeq(LowerLetters, i, i) = c) ELSE c

\* str.lower()
RECURSIVE Lower(_)
Lower(s) == IF Len(s) = 0 THEN "" ELSE ToLower(SubSeq(s, 1, 1)) \o Lower(SubSeq(s, 2, Len(s)))

\* sub in s
Contains(s, sub) == \E i \in 1..(Len(s) - Len(sub) + 1) : SubSeq(s, i, i + Len(sub) - 1) = sub

\* str.strip()
RECURSIVE LStrip(_)
LStrip(s) == IF Len(s) > 0 /\ SubSeq(s, 1, 1) \in Whitespace THEN LStrip(SubSeq(s, 2, Len(s))) ELSE s
RECURSIVE RStrip(_)
RStrip(s) == IF Len(s) > 0 /\ SubSeq(s, Len(s), Len(s)) \in Whitespace THEN RStrip(SubSeq(s, 1, Len(s) - 1)) ELSE s
Strip(s) == RStrip(LStrip(s))

\* str.isupper(): at least one cased character and no lower-case one
IsUpper(s) == (\E i \in 1..Len(s) : SubSeq(s, i, i) \in UpperSet) /\ (\A i \in 1..Len(s) : SubSeq(s, i, i) \notin LowerSet)

\* len(s.split()): the number of maximal runs of non-whitespace characters
SplitCount(s) == Cardinality({i \in 1..Len(s) : SubSeq(s, i, i) \notin Whitespace /\ (i = 1 \/ SubSeq(s, i - 1, i - 1) \in Whitespace)})

\* sep.join(items) for a sequence of strings
RECURSIVE Join(_, _)
Join(sep, items) == IF Len(items) = 0 THEN "" ELSE IF Len(items) = 1 THEN items[1] ELSE items[1] \o sep \o Join(sep, Tail(items))

(***************************************************************************)
(* Regular expressions (Python's re): a pattern is a sequence of nodes,    *)
(* matched by backtracking in the order re tries the alternatives          *)
(* (alternation left to right, greedy repetition longest first, lazy       *)
(* repetition shortest first).  A match is [ok, start, end, caps], the     *)
(* matched text being the characters start .. end-1 and caps[n] the span   *)
(* of group n.                                                             *)
(***************************************************************************)
RSet(s) == [k |-> "set", cs |-> CharSet(s), neg |-> FALSE]
RIn(cs) == [k |-> "set", cs |-> cs, neg |-> FALSE]
RNot(s) == [k |-> "set", cs |-> CharSet(s), neg |-> TRUE]
RStr(s) == [k |-> "str", s |-> Chars(s)]
RAlt(alts) == [k |-> "alt", alts |-> alts]
RRep(body, min, max, greedy) == [k |-> "rep", body |-> body, min |-> min, max |-> max, greedy |-> greedy]
RStar(body) == RRep(body, 0, -1, TRUE)
RPlus(body) == RRep(body, 1, -1, TRUE)
ROpt(body) == RRep(body, 0, 1, TRUE)
RLazyStar(body) == RRep(body, 0, -1, FALSE)
RGrp(n, body) == [k |-> "grp", n |-> n, body |-> body]
RLook(body) == [k |-> "look", body |-> body]
RWordB == [k |-> "wordb"]
\* one of several literal words, tried in the order written: (?:w1|w2|...)
RWords(ws) == RAlt([i \in 1..Len(ws) |-> <<RStr(ws[i])>>])

NoCaps == [n \in 1..2 |-> <<0, 0>>]
NoMatch == [ok |-> FALSE, start |-> 0, end |-> 0, caps |-> NoCaps]

InSet(c, n, ci) == (c \in n.cs \/ (ci /\ (ToLower(c) \in n.cs \/ ToUpper(c) \in n.cs))) # n.neg
StrAt(lit, cs, i, ci) == /\ i + Len(lit) - 1 <= Len(cs)
                         /\ \A j \in 1..Len(lit) : IF ci THEN ToLower(cs[i + j - 1]) = ToLower(lit[j]) ELSE cs[i + j - 1] = lit[j]
IsWordAt(cs, i) == i >= 1 /\ i <= Len(cs) /\ cs[i] \in WordChars

SetMin(S) == CHOOSE x \in S : \A y \in S : x <= y
SetMax(S) == CHOOSE x \in S : \A y \in S : x >= y
\* the number of consecutive characters from position i that are in the class n
RunLen(cs, i, n, ci) ==
  LET stops == {j \in i..Len(cs) : ~InSet(cs[j], n, ci)}
  IN (IF stops = {} THEN Len(cs) + 1 ELSE SetMin(stops)) - i

RECURSIVE M(_, _, _, _, _)
RECURSIVE MAlt(_, _, _, _, _, _, _)
M(nodes, cs, i, caps, ci) ==
  IF Len(nodes) = 0 THEN [ok |-> TRUE, start |-> 0, end |-> i, caps |-> caps]
  ELSE LET n == Head(nodes)
           rest == Tail(nodes)
       IN CASE n.k = "set" -> IF i <= Len(cs) /\ InSet(cs[i], n, ci) THEN M(rest, cs, i + 1, caps, ci) ELSE NoMatch
            [] n.k = "str" -> IF StrAt(n.s, cs, i, ci) THEN M(rest, cs, i + Len(n.s), caps, ci) ELSE NoMatch
            [] n.k = "alt" -> MAlt(n.alts, 1, rest, cs, i, caps, ci)
            [] n.k = "rep" /\ Len(n.body) = 1 /\ n.body[1].k = "set" ->
                 \* a repeated character class: the candidate lengths are min .. the run
                 \* length, tried longest first (greedy) or shortest first (lazy)
                 LET run == RunLen(cs, i, n.body[1], ci)
                     most == IF n.max >= 0 THEN Min2(run, n.max) ELSE run
                     first == IF n.greedy THEN most ELSE n.min
                     quick == M(rest, cs, i + first, caps, ci)
                     good == {j \in n.min..most : M(rest, cs, i + j, caps, ci).ok}
                 IN IF most < n.min THEN NoMatch
                    ELSE IF quick.ok THEN quick
                    ELSE IF good = {} THEN NoMatch
                    ELSE M(rest, cs, i + (IF n.greedy THEN SetMax(good) ELSE SetMin(good)), caps, ci)
            [] n.k = "rep" /\ ~(Len(n.body) = 1 /\ n.body[1].k = "set") ->
                 LET again == [n EXCEPT !.min = Max2(n.min - 1, 0), !.max = IF n.max > 0 THEN n.max - 1 ELSE n.max]
                     more == M(n.body \o <<[k |-> "adv", from |-> i], again>> \o rest, cs, i, caps, ci)
                     stop == M(rest, cs, i, caps, ci)
                 IN IF n.min > 0 THEN more
                    ELSE IF n.max = 0 THEN stop
                    ELSE IF n.greedy THEN (IF more.ok THEN more ELSE stop)
                    ELSE (IF stop.ok THEN stop ELSE more)
            [] n.k = "adv" -> IF i > n.from THEN M(rest, cs, i, caps, ci) ELSE NoMatch
            [] n.k = "grp" -> M(n.body \o <<[k |-> "close", n |-> n.n, from |-> i]>> \o rest, cs, i, caps, ci)
            [] n.k = "close" -> M(rest, cs, i, [caps EXCEPT ![n.n] = <<n.from, i>>], ci)
            [] n.k = "look" -> IF M(n.body, cs, i, caps, ci).ok THEN M(rest, cs, i, caps, ci) ELSE NoMatch
            [] n.k = "wordb" -> IF IsWordAt(cs, i - 1) # IsWordAt(cs, i) THEN M(rest, cs, i, caps, ci) ELSE NoMatch
MAlt(alts, a, rest, cs, i, caps, ci) ==
  IF a > Len(alts) THEN NoMatch
  ELSE LET r == M(alts[a] \o rest, cs, i, caps, ci)
       IN IF r.ok THEN r ELSE MAlt(alts, a + 1, rest, cs, i, caps, ci)

\* re.search from position i: the leftmost match
RECURSIVE SearchFrom(_, _, _, _)
SearchStep(r, re, cs, i, ci) == IF r.ok THEN [r EXCEPT !.start = i] ELSE SearchFrom(re, cs, i + 1, ci)
SearchFrom(re, cs, i, ci) ==
  IF i > Len(cs) + 1 THEN NoMatch ELSE SearchStep(M(re, cs, i, NoCaps, ci), re, cs, i, ci)
ReSearch(re, s, ci) == SearchFrom(re, Chars(s), 1, ci)

\* re.finditer: the non-overlapping matches, left to right
RECURSIVE FindFrom(_, _, _, _)
FindStep(r, re, cs, ci) ==
  IF ~r.ok THEN <<>>
  ELSE <<r>> \o FindFrom(re, cs, IF r.end > r.start THEN r.end ELSE r.end + 1, ci)
FindFrom(re, cs, i, ci) == FindStep(SearchFrom(re, cs, i, ci), re, cs, ci)
ReFindIter(re, s, ci) == FindFrom(re, Chars(s), 1, ci)

\* match.group(n) and match.group()
Group(s, m, n) == SubSeq(s, m.caps[n][1], m.caps[n][2] - 1)
Group0(s, m) == SubSeq(s, m.start, m.end - 1)

(***************************************************************************)
(* Scene Schema: the dataclasses Character, DialogueLine and ParsedScene.  *)
(***************************************************************************)
Character(name, description, voice_characteristics, emotions, actions) ==
  [t |-> "Character", name |-> name, description |-> description,
   voice_characteristics |-> voice_characteristics, emotions |-> emotions, actions |-> actions]
DialogueLine(character, text, emotion, action, timing, non_verbal) ==
  [t |-> "DialogueLine", character |-> character, text |-> text, emotion |-> emotion,
   action |-> action, timing |-> timing, non_verbal |-> non_verbal]
ParsedScene(description, characters, dialogue, actions, environment, mood, duration_estimate) ==
  [t |-> "ParsedScene", description |-> description, characters |-> characters,
   dialogue |-> dialogue, actions |-> actions, environment |-> environment, mood |-> mood,
   duration_estimate |-> duration_estimate]
\* the dataclass defaults
DefaultEmotion == PyStr("neutral")
DefaultTiming == PyFloat(0)
EmptyList == PyList(<<>>)
EmptyStr == PyStr("")

\* a sequence of strings as a Python list of str
RECURSIVE StrList(_)
StrList(items) == IF Len(items) = 0 THEN <<>> ELSE <<PyStr(items[1])>> \o StrList(Tail(items))

(***************************************************************************)
(* Local Linguistic Extractor: the sub-extractors of                       *)
(* _process_with_local_nlp.                                                *)
(***************************************************************************)
WS == <<RIn(Whitespace)>>
CapWord == <<RIn(UpperSet), RPlus(<<RIn(LowerSet)>>)>>
Quoted(n) == <<RStr("\""), RGrp(n, <<RPlus(<<RNot("\"")>>)>>), RStr("\"")>>

\* r'([A-Z][a-z]+)\s*:\s*"([^"]+)"'
pattern1 == <<RGrp(1, CapWord), RStar(WS), RStr(":"), RStar(WS)>> \o Quoted(2)
\* r'"([^"]+)"\s+(?:said|says|asks|replies|responds)\s+([A-Z][a-z]+)'
pattern2 == Quoted(1) \o <<RPlus(WS), RWords(<<"said", "says", "asks", "replies", "responds">>), RPlus(WS), RGrp(2, CapWord)>>
\* r'"([^"]+)"'
pattern3 == Quoted(1)

\* _extract_emotion_from_dialogue, had it tested the upper case first
ExtractEmotionUpperFirst(dialogue_text) ==
  IF IsUpper(dialogue_text) THEN "angry"
  ELSE IF Contains(dialogue_text, "!") THEN "excited"
  ELSE IF Contains(dialogue_text, "?") THEN "questioning"
  ELSE IF Contains(dialogue_text, "...") THEN "hesitant"
  ELSE "neutral"
\* _extract_emotion_from_dialogue without its test of the exclamation mark
ExtractEmotionIgnoresExclamation(dialogue_text) ==
  IF Contains(dialogue_text, "?") THEN "questioning"
  ELSE IF Contains(dialogue_text, "...") THEN "hesitant"
  ELSE IF IsUpper(dialogue_text) THEN "angry"
  ELSE "neutral"
\* _extract_emotion_from_dialogue
ExtractEmotionFromDialogue(dialogue_text) ==
  IF Contains(dialogue_text, "!") THEN "excited"
  ELSE IF Contains(dialogue_text, "?") THEN "questioning"
  ELSE IF Contains(dialogue_text, "...") THEN "hesitant"
  ELSE IF IsUpper(dialogue_text) THEN "angry"
  ELSE "neutral"

\* r'\[([^\]]+)\]' and r'\(([^\)]+)\)'
non_verbal_patterns == << <<RStr("["), RGrp(1, <<RPlus(<<RNot("]")>>)>>), RStr("]")>>,
                          <<RStr("("), RGrp(1, <<RPlus(<<RNot(")")>>)>>), RStr(")")>> >>

\* group(n) of every match of a pattern, in order
RECURSIVE Groups(_, _, _)
Groups(s, ms, n) == IF Len(ms) = 0 THEN <<>> ELSE <<Group(s, ms[1], n)>> \o Groups(s, Tail(ms), n)
RECURSIVE LowerAll(_)
LowerAll(items) == IF Len(items) = 0 THEN <<>> ELSE <<Lower(items[1])>> \o LowerAll(Tail(items))
\* the concatenation, over the patterns in order, of group(1) of their matches
RECURSIVE GroupsOfPatterns(_, _, _)
GroupsOfPatterns(s, pats, ci) ==
  IF Len(pats) = 0 THEN <<>>
  ELSE Groups(s, ReFindIter(pats[1], s, ci), 1) \o GroupsOfPatterns(s, Tail(pats), ci)

\* _extract_non_verbal_cues
ExtractNonVerbalCues(text) == LowerAll(GroupsOfPatterns(text, non_verbal_patterns, FALSE))

\* the DialogueLine built from one match: emotion and cues come from the quoted text
LocalLine(character, dialogue_text) ==
  DialogueLine(PyStr(character), PyStr(dialogue_text), PyStr(ExtractEmotionFromDialogue(dialogue_text)),
               EmptyStr, DefaultTiming, PyList(StrList(ExtractNonVerbalCues(dialogue_text))))

RECURSIVE Lines1(_, _)
Lines1(s, ms) == IF Len(ms) = 0 THEN <<>> ELSE <<LocalLine(Group(s, ms[1], 1), Group(s, ms[1], 2))>> \o Lines1(s, Tail(ms))
RECURSIVE Lines2(_, _)
Lines2(s, ms) == IF Len(ms) = 0 THEN <<>> ELSE <<LocalLine(Group(s, ms[1], 2), Group(s, ms[1], 1))>> \o Lines2(s, Tail(ms))
\* the placeholder speaker, had it been numbered from 0: f"Character{i}"
PlaceholderFromZero(n) == "Character" \o ToString(n - 1)
\* the placeholder speaker f"Character{i+1}"
Placeholder(n) == "Character" \o ToString(n)
RECURSIVE Lines3(_, _, _)
Lines3(s, ms, i) == IF Len(ms) = 0 THEN <<>> ELSE <<LocalLine(Placeholder(i + 1), Group(s, ms[1], 1))>> \o Lines3(s, Tail(ms), i + 1)

\* _extract_dialogue, had it stopped at the first pattern with a match
ExtractDialogueFirstWins(text) ==
  IF Len(ReFindIter(pattern1, text, FALSE)) > 0 THEN Lines1(text, ReFindIter(pattern1, text, FALSE))
  ELSE IF Len(ReFindIter(pattern2, text, FALSE)) > 0 THEN Lines2(text, ReFindIter(pattern2, text, FALSE))
  ELSE Lines3(text, ReFindIter(pattern3, text, FALSE), 0)
\* _extract_dialogue
ExtractDialogue(text) ==
  LET dialogue_lines == Lines1(text, ReFindIter(pattern1, text, FALSE)) \o Lines2(text, ReFindIter(pattern2, text, FALSE))
  IN IF Len(dialogue_lines) = 0 THEN Lines3(text, ReFindIter(pattern3, text, FALSE), 0) ELSE dialogue_lines

\* _estimate_duration, had it added the two durations instead of taking the larger
EstimateDurationSum(word_count, dialogue_count) ==
  LET base_duration == Max2(5, word_count \div 20)
      dialogue_duration == dialogue_count * 3
  IN Min2(30, base_duration + dialogue_duration)
\* _estimate_duration: // is floor division
EstimateDuration(word_count, dialogue_count) ==
  LET base_duration == Max2(5, word_count \div 20)
      dialogue_duration == dialogue_count * 3
  IN Min2(30, Max2(base_duration, dialogue_duration))

\* sub in s.lower(), for a lower-case sub
ContainsLowered(s, sub) ==
  \E i \in 1..(Len(s) - Len(sub) + 1) : \A j \in 1..Len(sub) : ToLower(SubSeq(s, i + j - 1, i + j - 1)) = SubSeq(sub, j, j)
Range(f) == {f[i] : i \in DOMAIN f}
\* the orders in which list(set(...)) may enumerate a set of strings: the iteration
\* order of a set of str depends on the per-process hash seed
NameOrders(S) == {p \in [1..Cardinality(S) -> S] : \A i, j \in 1..Cardinality(S) : p[i] = p[j] => i = j}

\* r'\b([A-Z][a-z]+)(?=\s*[:""])'
name_pattern == <<RWordB, RGrp(1, CapWord), RLook(<<RStar(WS), RSet(":\"")>>)>>
\* the names the regex heuristic finds when no NER pipeline is loaded
RegexPersonNames(text) == Groups(text, ReFindIter(name_pattern, text, FALSE), 1)
false_positives == {"the", "and", "but", "or"}

AnyButDot == <<RNot(".")>>
description_words == <<"tall", "short", "young", "old", "beautiful", "handsome", "wearing", "dressed">>
\* rf'{character_name}[^.]*?([^.]*(?:tall|short|...|dressed)[^.]*)'
DescriptionPattern(character_name) ==
  <<RStr(character_name), RLazyStar(AnyButDot), RGrp(1, <<RStar(AnyButDot), RWords(description_words), RStar(AnyButDot)>>)>>
\* _extract_character_description
ExtractCharacterDescription(text, character_name) ==
  LET match == ReSearch(DescriptionPattern(character_name), text, TRUE)
  IN IF match.ok THEN Strip(Group(text, match, 1)) ELSE ""

emotion_words == <<"happy", "sad", "angry", "excited", "nervous", "calm", "worried", "surprised", "confused">>
\* rf'{character_name}[^.]*?{emotion}|{emotion}[^.]*?{character_name}'
EmotionPattern(character_name, emotion) ==
  <<RAlt(<< <<RStr(character_name), RLazyStar(AnyButDot), RStr(emotion)>>,
            <<RStr(emotion), RLazyStar(AnyButDot), RStr(character_name)>> >>)>>
\* _extract_character_emotions
ExtractCharacterEmotions(text, character_name) ==
  SelectSeq(emotion_words, LAMBDA emotion : ReSearch(EmotionPattern(character_name, emotion), text, TRUE).ok)

action_verbs == <<"walks", "runs", "sits", "stands", "looks", "turns", "moves", "enters", "exits", "grabs", "holds">>
\* rf'{character_name}\s+(walks|runs|...|holds)'
CharacterActionPattern(character_name) == <<RStr(character_name), RPlus(WS), RGrp(1, <<RWords(action_verbs)>>)>>
\* _extract_character_actions
ExtractCharacterActions(text, character_name) ==
  Groups(text, ReFindIter(CharacterActionPattern(character_name), text, TRUE), 1)

RECURSIVE BuildCharacters(_, _)
BuildCharacters(text, names) ==
  IF Len(names) = 0 THEN <<>>
  ELSE <<Character(PyStr(names[1]), PyStr(ExtractCharacterDescription(text, names[1])), EmptyStr,
                   PyList(StrList(ExtractCharacterEmotions(text, names[1]))),
                   PyList(StrList(ExtractCharacterActions(text, names[1]))))>>
       \o BuildCharacters(text, Tail(names))
\* _extract_characters, from list(set(person_names)) in the order the set enumerates
ExtractCharacters(text, person_names) ==
  BuildCharacters(text, SelectSeq(person_names, LAMBDA name : Lower(name) \notin false_positives))

\* r'(walks? (?:to|into|towards)[^.]*)' and the seven patterns after it
VerbPhrase(verb, qualifiers) ==
  <<RGrp(1, <<RStr(verb), ROpt(<<RSet("s")>>), RStr(" ")>> \o qualifiers \o <<RStar(AnyButDot)>>)>>
action_patterns ==
  << VerbPhrase("walk", <<RWords(<<"to", "into", "towards">>)>>),
     VerbPhrase("run", <<RWords(<<"to", "into", "towards">>)>>),
     VerbPhrase("enter", <<>>),
     VerbPhrase("exit", <<>>),
     VerbPhrase("sit", <<RWords(<<"down", "on">>)>>),
     VerbPhrase("stand", <<RWords(<<"up", "on">>)>>),
     VerbPhrase("look", <<RWords(<<"at", "towards">>)>>),
     VerbPhrase("turn", <<RWords(<<"to", "towards">>)>>) >>
\* _extract_actions
ExtractActions(text) == GroupsOfPatterns(text, action_patterns, TRUE)

place_nouns == <<"room", "house", "park", "street", "office", "restaurant", "cafe", "bar", "store", "school",
                 "hospital", "church", "beach", "forest", "mountain", "city", "town", "village">>
location_patterns ==
  << \* r'(?:in|at|inside|outside)\s+(?:a|an|the)?\s*([^.]*(?:room|...|village)[^.]*)'
     <<RWords(<<"in", "at", "inside", "outside">>), RPlus(WS), ROpt(<<RWords(<<"a", "an", "the">>)>>), RStar(WS),
       RGrp(1, <<RStar(AnyButDot), RWords(place_nouns), RStar(AnyButDot)>>)>>,
     \* r'(?:INT\.|EXT\.)\s*([^-\n]*)'
     <<RWords(<<"INT.", "EXT.">>), RStar(WS), RGrp(1, <<RStar(<<RNot("-\n")>>)>>)>>,
     \* r'(?:setting|location|place):\s*([^\n]*)'
     <<RWords(<<"setting", "location", "place">>), RStr(":"), RStar(WS), RGrp(1, <<RStar(<<RNot("\n")>>)>>)>> >>
env_words == <<"indoor", "outdoor", "sunny", "dark", "bright", "cozy", "spacious", "crowded", "quiet", "noisy">>
\* the search of the location patterns, had the last pattern with a match won
RECURSIVE LastLocation(_, _)
LastLocation(text, pats) ==
  IF Len(pats) = 0 THEN NoMatch
  ELSE IF LastLocation(text, Tail(pats)).ok THEN LastLocation(text, Tail(pats))
  ELSE ReSearch(pats[1], text, TRUE)
RECURSIVE FirstLocation(_, _)
FirstLocation(text, pats) ==
  IF Len(pats) = 0 THEN NoMatch
  ELSE LET match == ReSearch(pats[1], text, TRUE)
       IN IF match.ok THEN match ELSE FirstLocation(text, Tail(pats))
\* _extract_environment, had it returned match.group(1) without strip()
ExtractEnvironmentUnstripped(text) ==
  LET match == FirstLocation(text, location_patterns)
      found_env == SelectSeq(env_words, LAMBDA word : ContainsLowered(text, word))
  IN IF match.ok THEN Group(text, match, 1)
     ELSE IF Len(found_env) > 0 THEN Join(", ", found_env)
     ELSE "unspecified location"
\* _extract_environment
ExtractEnvironment(text) ==
  LET match == FirstLocation(text, location_patterns)
      found_env == SelectSeq(env_words, LAMBDA word : ContainsLowered(text, word))
  IN IF match.ok THEN Strip(Group(text, match, 1))
     ELSE IF Len(found_env) > 0 THEN Join(", ", found_env)
     ELSE "unspecified location"

mood_indicators ==
  << [mood |-> "happy", indicators |-> {"happy", "joyful", "cheerful", "upbeat", "positive", "bright"}],
     [mood |-> "sad", indicators |-> {"sad", "melancholy", "depressing", "gloomy", "somber"}],
     [mood |-> "tense", indicators |-> {"tense", "suspenseful", "dramatic", "intense", "serious"}],
     [mood |-> "romantic", indicators |-> {"romantic", "intimate", "loving", "tender", "sweet"}],
     [mood |-> "comedic", indicators |-> {"funny", "humorous", "comedic", "amusing", "lighthearted"}],
     [mood |-> "mysterious", indicators |-> {"mysterious", "enigmatic", "puzzling", "strange", "eerie"}] >>
\* _extract_mood, had the last category with a keyword won
ExtractMoodLastWins(text) ==
  LET hits == {i \in 1..Len(mood_indicators) : \E indicator \in mood_indicators[i].indicators : ContainsLowered(text, indicator)}
  IN IF hits = {} THEN "neutral" ELSE mood_indicators[SetMax(hits)].mood
\* _extract_mood
ExtractMood(text) ==
  LET hits == {i \in 1..Len(mood_indicators) : \E indicator \in mood_indicators[i].indicators : ContainsLowered(text, indicator)}
  IN IF hits = {} THEN "neutral" ELSE mood_indicators[SetMin(hits)].mood

\* _process_with_local_nlp, given the order in which list(set(person_names)) enumerates
ProcessWithLocalNlp(prompt, person_names) ==
  LET dialogue == ExtractDialogue(prompt)
  IN ParsedScene(PyStr(IF Len(prompt) > 200 THEN SubSeq(prompt, 1, 200) \o "..." ELSE prompt),
                 PyList(ExtractCharacters(prompt, person_names)),
                 PyList(dialogue),
                 PyList(StrList(ExtractActions(prompt))),
                 PyStr(ExtractEnvironment(prompt)),
                 PyStr(ExtractMood(prompt)),
                 PyInt(EstimateDuration(SplitCount(prompt), Len(dialogue))))

(***************************************************************************)
(* Deterministic Fallback Extractor.                                       *)
(***************************************************************************)
RECURSIVE FallbackLines(_, _)
FallbackLines(quotes, i) ==
  IF Len(quotes) = 0 THEN <<>>
  ELSE <<DialogueLine(PyStr(Placeholder(i + 1)), PyStr(quotes[1]), PyStr("neutral"), EmptyStr, DefaultTiming, EmptyList)>>
       \o FallbackLines(Tail(quotes), i + 1)
\* _process_with_fallback, had it created one placeholder Character for every quote
ProcessWithFallbackCharacterPerQuote(prompt) ==
  LET quotes == Groups(prompt, ReFindIter(pattern3, prompt, FALSE), 1)
  IN ParsedScene(PyStr(prompt),
                 PyList([i \in DOMAIN quotes |-> Character(PyStr(Placeholder(i)), EmptyStr, EmptyStr, EmptyList, EmptyList)]),
                 PyList(FallbackLines(quotes, 0)),
                 PyList(<<PyStr("scene action")>>),
                 PyStr("unspecified"),
                 PyStr("neutral"),
                 PyInt(10))
\* _process_with_fallback
ProcessWithFallback(prompt) ==
  LET quotes == Groups(prompt, ReFindIter(pattern3, prompt, FALSE), 1)
  IN ParsedScene(PyStr(prompt),
                 PyList(<<Character(PyStr("Character1"), EmptyStr, EmptyStr, EmptyList, EmptyList)>>),
                 PyList(FallbackLines(quotes, 0)),
                 PyList(<<PyStr("scene action")>>),
                 PyStr("unspecified"),
                 PyStr("neutral"),
                 PyInt(10))

(***************************************************************************)
(* Exceptions.  A call of a function that may raise yields Return(v) or    *)
(* Raise(cls); IsInstance is Python's subclass relation on the classes the *)
(* extractor meets.                                                        *)
(***************************************************************************)
Return(v) == [t |-> "return", v |-> v, exc |-> ""]
Raise(cls) == [t |-> "raise", v |-> PyNone, exc |-> cls]
Returned(r) == r.t = "return"
\* the builtin and library exception classes below Exception
ExceptionClasses == {"Exception", "JSONDecodeError", "ValueError", "TypeError", "AttributeError",
                     "RuntimeError", "APIConnectionError", "APITimeoutError", "APIStatusError"}
SuperClasses(cls) ==
  CASE cls = "JSONDecodeError" -> {"JSONDecodeError", "ValueError", "Exception", "BaseException"}
    [] cls = "APITimeoutError" -> {"APITimeoutError", "APIConnectionError", "Exception", "BaseException"}
    [] cls \in ExceptionClasses \ {"JSONDecodeError", "APITimeoutError"} -> {cls, "Exception", "BaseException"}
    [] OTHER -> {cls, "BaseException"}
\* whether an except clause for base catches an exception of class cls
IsInstance(cls, base) == base \in SuperClasses(cls)

(***************************************************************************)
(* json.loads on a character string.  Numbers are integers or decimals     *)
(* without exponent; string literals hold no escape sequences (a backslash *)
(* is rejected), which the replies of this model never contain.            *)
(***************************************************************************)
JsonWhitespace == {" ", "\t", "\n", "\r"}
ControlChars == {"\t", "\n", "\r", "\f"}
DigitSet == CharSet(Digits)
JFail == [ok |-> FALSE, val |-> PyNone, next |-> 0]
JOk(val, next) == [ok |-> TRUE, val |-> val, next |-> next]
\* the character at position i, "" past the end
At(cs, i) == IF i >= 1 /\ i <= Len(cs) THEN cs[i] ELSE ""
\* the first position from i on whose character is not in the set
SkipSet(cs, i, set) ==
  LET stops == {j \in i..Len(cs) : cs[j] \notin set}
  IN IF stops = {} THEN Len(cs) + 1 ELSE SetMin(stops)
SkipWs(cs, i) == SkipSet(cs, i, JsonWhitespace)
DigitValue(c) == CHOOSE d \in 0..9 : SubSeq(Digits, d + 1, d + 1) = c
RECURSIVE DigitsValue(_, _, _)
DigitsValue(cs, from, to) == IF to < from THEN 0 ELSE DigitsValue(cs, from, to - 1) * 10 + DigitValue(cs[to])
\* the last position in from..to that holds a non-zero digit, from - 1 if none
LastNonZero(cs, from, to) ==
  LET nz == {j \in from..to : cs[j] # "0"}
  IN IF nz = {} THEN from - 1 ELSE SetMax(nz)
PyDecimal(n, frac) == [t |-> "float", v |-> n, frac |-> frac]

\* a string literal whose opening quote is at position i
JsonString(s, cs, i) ==
  LET stops == {j \in (i + 1)..Len(cs) : cs[j] \in ({"\"", "\\"} \cup ControlChars)}
      close == SetMin(stops)
  IN IF stops = {} \/ cs[close] # "\"" THEN JFail
     ELSE JOk(PyStr(SubSeq(s, i + 1, close - 1)), close + 1)

\* a number starting at position i: -?(0|[1-9][0-9]*)(\.[0-9]+)?
JsonNumber(s, cs, i) ==
  LET neg == At(cs, i) = "-"
      d1 == IF neg THEN i + 1 ELSE i
      dend == IF At(cs, d1) = "0" THEN d1 + 1 ELSE SkipSet(cs, d1, DigitSet)
      int == DigitsValue(cs, d1, dend - 1)
      fend == SkipSet(cs, dend + 1, DigitSet)
      hasFrac == At(cs, dend) = "." /\ fend > dend + 1
      value == IF neg THEN 0 - int ELSE int
  IN IF dend = d1 THEN JFail
     ELSE IF hasFrac THEN JOk(PyDecimal(value, SubSeq(s, dend + 1, LastNonZero(cs, dend + 1, fend - 1))), fend)
     ELSE JOk(PyInt(value), dend)

JsonLiteral(cs, i, word, val) == IF StrAt(Chars(word), cs, i, FALSE) THEN JOk(val, i + Len(word)) ELSE JFail

RECURSIVE JsonValue(_, _, _)
RECURSIVE JsonMembers(_, _, _, _, _)
RECURSIVE JsonElements(_, _, _, _, _)
\* the value starting at position i (whitespace already skipped)
JsonValue(s, cs, i) ==
  LET c == At(cs, i)
  IN CASE c = "{" -> JsonMembers(s, cs, SkipWs(cs, i + 1), EmptyDict.v, TRUE)
       [] c = "[" -> JsonElements(s, cs, SkipWs(cs, i + 1), <<>>, TRUE)
       [] c = "\"" -> JsonString(s, cs, i)
       [] c = "-" \/ c \in DigitSet -> JsonNumber(s, cs, i)
       [] c = "t" -> JsonLiteral(cs, i, "true", PyBool(TRUE))
       [] c = "f" -> JsonLiteral(cs, i, "false", PyBool(FALSE))
       [] c = "n" -> JsonLiteral(cs, i, "null", PyNone)
       [] OTHER -> JFail
\* the members of an object from position i on; a repeated key keeps its last value
JsonMembers(s, cs, i, acc, first) ==
  IF first /\ At(cs, i) = "}" THEN JOk(PyDict(acc), i + 1)
  ELSE IF At(cs, i) # "\"" THEN JFail
  ELSE LET key == JsonString(s, cs, i)
           colon == SkipWs(cs, key.next)
           val == JsonValue(s, cs, SkipWs(cs, colon + 1))
           after == SkipWs(cs, val.next)
           acc2 == (key.val.v :> val.val) @@ acc
       IN IF ~key.ok \/ At(cs, colon) # ":" THEN JFail
          ELSE IF ~val.ok THEN JFail
          ELSE IF At(cs, after) = "," THEN JsonMembers(s, cs, SkipWs(cs, after + 1), acc2, FALSE)
          ELSE IF At(cs, after) = "}" THEN JOk(PyDict(acc2), after + 1)
          ELSE JFail
\* the elements of an array from position i on
JsonElements(s, cs, i, acc, first) ==
  IF first /\ At(cs, i) = "]" THEN JOk(PyList(acc), i + 1)
  ELSE LET val == JsonValue(s, cs, i)
           after == SkipWs(cs, val.next)
           acc2 == Append(acc, val.val)
       IN IF ~val.ok THEN JFail
          ELSE IF At(cs, after) = "," THEN JsonElements(s, cs, SkipWs(cs, after + 1), acc2, FALSE)
          ELSE IF At(cs, after) = "]" THEN JOk(PyList(acc2), after + 1)
          ELSE JFail

\* json.loads(content): a str must hold one value and nothing else but whitespace
JsonLoads(content) ==
  IF content.t # "str" THEN Raise("TypeError")
  ELSE LET cs == Chars(content.v)
           r == JsonValue(content.v, cs, SkipWs(cs, 1))
       IN IF r.ok /\ SkipWs(cs, r.next) = Len(cs) + 1 THEN Return(r.val) ELSE Raise("JSONDecodeError")

(***************************************************************************)
(* Remote Semantic Parser: the mapping of the parsed reply into the Scene  *)
(* Schema and the two-step handling of the reply.                          *)
(***************************************************************************)
\* d.get(key, default) on a dict
Get(d, key, default) == IF key \in DOMAIN d.v THEN d.v[key] ELSE default
\* obj.get(key, default): only a dict has the method
GetOf(obj, key, default) == IF obj.t = "dict" THEN Return(Get(obj, key, default)) ELSE Raise("AttributeError")
\* the items a for loop over the value visits: the elements of a list, the keys of a
\* dict, the characters of a str; the other types are not iterable
Iterate(x) ==
  CASE x.t = "list" -> Return(x.v)
    [] x.t = "dict" -> Return([i \in 1..Cardinality(DOMAIN x.v) |-> PyStr("<key>")])
    [] x.t = "str" -> Return([i \in 1..Len(x.v) |-> PyStr(SubSeq(x.v, i, i))])
    [] OTHER -> Raise("TypeError")

\* Character(name=char_data.get('name', ''), ...)
CharacterOf(char_data) ==
  Character(Get(char_data, "name", EmptyStr), Get(char_data, "description", EmptyStr),
            Get(char_data, "voice_characteristics", EmptyStr), Get(char_data, "emotions", EmptyList),
            Get(char_data, "actions", EmptyList))
\* the DialogueLine mapping, had it read its keys with dial_data.get(key)
DialogueLineOfNoDefaults(dial_data) ==
  DialogueLine(Get(dial_data, "character", PyNone), Get(dial_data, "text", PyNone),
               Get(dial_data, "emotion", PyNone), Get(dial_data, "action", PyNone),
               Get(dial_data, "timing", PyNone), Get(dial_data, "non_verbal", PyNone))
\* DialogueLine(character=dial_data.get('character', ''), ...)
DialogueLineOf(dial_data) ==
  DialogueLine(Get(dial_data, "character", EmptyStr), Get(dial_data, "text", EmptyStr),
               Get(dial_data, "emotion", PyStr("neutral")), Get(dial_data, "action", EmptyStr),
               Get(dial_data, "timing", PyFloat(0)), Get(dial_data, "non_verbal", EmptyList))

\* _convert_to_parsed_scene, had it tolerated a reply without the shape of a scene:
\* a value that is no dict read as an empty one, entries that are no dict skipped
ConvertToParsedSceneTolerant(data) ==
  LET d == IF data.t = "dict" THEN data ELSE EmptyDict
      Entries(key) == IF Get(d, key, EmptyList).t = "list"
                      THEN SelectSeq(Get(d, key, EmptyList).v, LAMBDA e : e.t = "dict")
                      ELSE <<>>
  IN Return(ParsedScene(Get(d, "description", EmptyStr),
                        PyList([i \in DOMAIN Entries("characters") |-> CharacterOf(Entries("characters")[i])]),
                        PyList([i \in DOMAIN Entries("dialogue") |-> DialogueLineOf(Entries("dialogue")[i])]),
                        Get(d, "actions", EmptyList),
                        Get(d, "environment", EmptyStr),
                        Get(d, "mood", PyStr("neutral")),
                        Get(d, "duration_estimate", PyInt(10))))
\* _convert_to_parsed_scene
ConvertToParsedScene(data) ==
  IF data.t # "dict" THEN Raise("AttributeError")
  ELSE LET chars == Iterate(Get(data, "characters", EmptyList))
           dials == Iterate(Get(data, "dialogue", EmptyList))
       IN IF ~Returned(chars) THEN chars
          ELSE IF \E i \in DOMAIN chars.v : chars.v[i].t # "dict" THEN Raise("AttributeError")
          ELSE IF ~Returned(dials) THEN dials
          ELSE IF \E i \in DOMAIN dials.v : dials.v[i].t # "dict" THEN Raise("AttributeError")
          ELSE Return(ParsedScene(Get(data, "description", EmptyStr),
                                  PyList([i \in DOMAIN chars.v |-> CharacterOf(chars.v[i])]),
                                  PyList([i \in DOMAIN dials.v |-> DialogueLineOf(dials.v[i])]),
                                  Get(data, "actions", EmptyList),
                                  Get(data, "environment", EmptyStr),
                                  Get(data, "mood", PyStr("neutral")),
                                  Get(data, "duration_estimate", PyInt(10))))

\* re.search(r'\{.*\}', result, re.DOTALL)
json_pattern == <<RStr("{"), RStar(<<RNot("")>>), RStr("}")>>

\* the reply handling, had it answered an unparseable reply with an empty scene
ParseReplyInvents(result) ==
  LET direct == JsonLoads(result)
  IN IF Returned(direct) THEN ConvertToParsedScene(direct.v) ELSE ConvertToParsedScene(EmptyDict)
\* the body of the try block of _process_with_deepseek after the completion call
\* returned: json.loads, the except json.JSONDecodeError salvage, the conversion
ParseReply(result) ==
  LET direct == JsonLoads(result)
      json_match == ReSearch(json_pattern, result.v, FALSE)
      salvaged == JsonLoads(PyStr(Group0(result.v, json_match)))
  IN IF Returned(direct) THEN ConvertToParsedScene(direct.v)
     ELSE IF ~IsInstance(direct.exc, "JSONDecodeError") THEN direct
     ELSE IF ~json_match.ok THEN Raise("Exception")
     ELSE IF Returned(salvaged) THEN ConvertToParsedScene(salvaged.v)
     ELSE salvaged

(***************************************************************************)
(* Inputs of the model.                                                    *)
(***************************************************************************)
\* the concatenations of at most n pieces
RECURSIVE Concats(_, _)
Concats(pieces, n) == IF n = 0 THEN {""} ELSE Concats(pieces, n - 1) \cup {a \o b : a \in Concats(pieces, n - 1), b \in pieces}

\* a speaker and a quote; the texts of LocalPrompts hold the other styles of dialogue
PromptPieces == {"Alice: ", "\"Hi!\""}
Prompts == Concats(PromptPieces, MaxPieces)

\* the texts of at most n sentences, a space between two sentences
RECURSIVE Texts(_, _)
Texts(sentences, n) ==
  IF n = 0 THEN {""}
  ELSE Texts(sentences, n - 1) \cup sentences
       \cup {a \o " " \o b : a \in Texts(sentences, n - 1) \ {""}, b \in sentences}
\* sentences in each attribution style, bare quotes, a slug line, a location and moods
Sentences ==
  { "Alice: \"Hi!\"", "\"Bye.\" said Bob", "Bob: \"Hm...\"", "\"Hello.\"",
    "INT. COFFEE SHOP - DAY", "A gloomy but bright day in the park." }
\* prompts given whole
Examples ==
  { "Alice: \"I can't believe it!\"", "\"Where are we going?\" asked Bob", "\"Hello.\" \"Goodbye.\"",
    "A strange, funny and tender night.", "A SERIOUS matter.",
    "Alice: \"STOP!\" Bob: \"NO\" Alice: \"WHY?!\" Bob: \"Well... ok?\"", "Alice: \"Hi\" said Bob",
    "setting: the old mill", "location: a dark cave", "EXT. ROOF - NIGHT place: mill",
    "A quiet, dark night.", "Setting: a dark cave in the forest." }
LocalPrompts == Examples \cup Texts(Sentences, MaxSentences)

\* what the completion service may put around the body of its reply
ProsePieces == {"Here is the scene: ", " As {requested}. "}
\* the prose before and after the body: at most MaxProse pieces in all
Prose == UNION {Concats(ProsePieces, n) \X Concats(ProsePieces, MaxProse - n) : n \in 0..MaxProse}
FullScene == "{\"description\": \"A talk\", \"characters\": [{\"name\": \"Alice\", \"description\": \"tall\", \"voice_characteristics\": \"soft\", \"emotions\": [\"happy\"], \"actions\": [\"waves\"]}], \"dialogue\": [{\"character\": \"Alice\", \"text\": \"Hi\", \"emotion\": \"excited\", \"action\": \"waves\", \"timing\": 1.5, \"non_verbal\": [\"laugh\"]}], \"actions\": [\"enter\"], \"environment\": \"a park\", \"mood\": \"happy\", \"duration_estimate\": 12}"
ReplyBodies ==
  { FullScene,
    "{}",
    "{\"mood\": \"sad\", \"duration_estimate\": 100}",
    "{\"description\": \"A talk\", \"duration_estimate\": 3}",
    "{\"characters\": [{\"name\": \"Bob\"}, {}], \"dialogue\": [{\"text\": \"Hi\"}, {}]}",
    "{\"characters\": [{\"description\": \"tall\", \"emotions\": [\"sad\"]}], \"dialogue\": [{\"character\": \"Bob\", \"timing\": 2, \"non_verbal\": []}], \"environment\": \"a bar\"}",
    "{\"characters\": 5}",
    "{\"dialogue\": [\"Hi\"]}",
    "[]",
    "42",
    "{\"mood\": \"happy\"",
    "I cannot parse this scene.",
    "" }
Replies == {around[1] \o body \o around[2] : around \in Prose, body \in ReplyBodies}
\* response.choices[0].message.content: a str, or None
Contents == {PyStr(r) : r \in Replies} \cup {PyNone}

\* what the constructor may be given: the api_key argument and DEEPSEEK_API_KEY
ApiKeyArguments == {PyNone, PyStr("sk-test")}
EnvironmentKeys == {PyNone, PyStr("")}
\* what the completion call raises when it fails
ApiErrors == {"APIConnectionError", "APIStatusError"}
\* the person names the NER pipeline can recognise
NerVocabulary == {"Alice", "Bob"}
Tiers == {"Remote", "Local", "Fallback"}

(***************************************************************************)
(* State.                                                                  *)
(***************************************************************************)
VARIABLES
  api_key,       \* self.api_key
  client,        \* self.client: "OpenAI" or None
  model,         \* self.model: the name of the completion model, set with the client
  nlp,           \* self.nlp: the spaCy model or None
  ner_pipeline,  \* self.ner_pipeline: "pipeline" or None
  pc,            \* where the current call of process_natural_language_prompt stands
  prompt,        \* its argument
  service,       \* whether the completion service answers the pending request
  response,      \* the content of the reply, while the Remote tier handles it
  attempts,      \* the tiers entered in this call, in order
  requests,      \* the completion requests issued in this call
  caught,        \* the exception classes caught in this call, in order
  result,        \* what the call returns
  other,         \* the locals of a second call of the same processor, suspended
  word_count,    \* _estimate_duration: len(text.split())
  dialogue_count, \* _estimate_duration: len(dialogue)
  duration       \* _estimate_duration: the value returned, 0 while none is

\* the arguments and the value of a call of _estimate_duration on its own
estimate == <<word_count, dialogue_count, duration>>
vars == <<api_key, client, model, nlp, ner_pipeline, pc, prompt, service, response, attempts, requests, caught, result, other, estimate>>

\* Python truthiness of an optional string
Truthy(x) == x.t = "str" /\ x.v # ""
\* a or b
Or(a, b) == IF Truthy(a) THEN a ELSE b
NoClient == PyNone
NoScene == PyNone
\* the locals of the call in progress, and of no call
Running ==
  [pc |-> pc, prompt |-> prompt, service |-> service, response |-> response,
   attempts |-> attempts, requests |-> requests, caught |-> caught, result |-> result]
NoCall ==
  [pc |-> "idle", prompt |-> "", service |-> "up", response |-> PyNone,
   attempts |-> <<>>, requests |-> 0, caught |-> <<>>, result |-> NoScene]

\* __init__, then no call in progress
Init ==
  /\ \E argument \in ApiKeyArguments, env \in EnvironmentKeys :
       /\ api_key = Or(argument, env)
       /\ client = IF Truthy(Or(argument, env)) THEN PyStr("OpenAI") ELSE NoClient
       /\ model = IF Truthy(Or(argument, env)) THEN PyStr("deepseek-chat") ELSE [t |-> "unset"]
  /\ nlp \in {PyStr("en_core_web_sm"), PyNone}
  /\ ner_pipeline \in {PyStr("pipeline"), PyNone}
  /\ pc = "idle"
  /\ prompt = ""
  /\ service = "up"
  /\ response = PyNone
  /\ attempts = <<>>
  /\ requests = 0
  /\ caught = <<>>
  /\ result = NoScene
  /\ other = NoCall
  /\ word_count = 0
  /\ dialogue_count = 0
  /\ duration = 0

\* the outer handler, had it been written as except ValueError
OuterHandlerNarrow(exc) == IF IsInstance(exc, "ValueError") THEN "fallback" ELSE "raised"
\* the outer handler, had it run the Local tier again instead of the Fallback tier
OuterHandlerRetriesLocal(exc) == IF IsInstance(exc, "Exception") THEN "local" ELSE "raised"
\* except Exception in process_natural_language_prompt: where the call goes next
OuterHandler(exc) == IF IsInstance(exc, "Exception") THEN "fallback" ELSE "raised"
\* _process_with_deepseek without its own handler: a remote failure reaches the outer one
DeepseekHandlerSkipsLocal(exc) == OuterHandler(exc)
\* _process_with_deepseek, had its handler issued the completion call again
DeepseekHandlerRetries(exc) == IF IsInstance(exc, "Exception") THEN "remote" ELSE OuterHandler(exc)
\* except Exception in _process_with_deepseek: an exception it does not catch
\* reaches the handler of process_natural_language_prompt
DeepseekHandler(exc) == IF IsInstance(exc, "Exception") THEN "local" ELSE OuterHandler(exc)
\* process_natural_language_prompt without the test of self.client
FirstTierIgnoresClient(c) == "remote"
\* if self.client: Remote tier, else Local tier
FirstTier(c) == IF c # NoClient THEN "remote" ELSE "local"

\* process_natural_language_prompt(prompt) is called
Call(p) ==
  /\ pc = "idle"
  /\ prompt' = p
  /\ pc' = FirstTier(client)
  /\ UNCHANGED <<api_key, client, model, nlp, ner_pipeline, other, estimate, service, response, attempts, requests, caught, result>>

\* _process_with_deepseek issues self.client.chat.completions.create(...); no timeout
\* is passed, and the service may or may not answer
RemoteRequest ==
  /\ pc = "remote"
  /\ attempts' = Append(attempts, "Remote")
  /\ requests' = requests + 1
  /\ service' \in {"up", "silent"}
  /\ pc' = "waiting"
  /\ UNCHANGED <<api_key, client, model, nlp, ner_pipeline, other, estimate, prompt, response, caught, result>>

\* the completion call raises
RemoteError ==
  /\ pc = "waiting" /\ service = "up"
  /\ \E exc \in ApiErrors :
       /\ caught' = Append(caught, exc)
       /\ pc' = DeepseekHandler(exc)
  /\ UNCHANGED <<api_key, client, model, nlp, ner_pipeline, other, estimate, prompt, service, response, attempts, requests, result>>

\* the completion call returns a reply, one of contents
RemoteReplyOf(contents) ==
  /\ pc = "waiting" /\ service = "up"
  /\ response' \in contents
  /\ pc' = "answered"
  /\ UNCHANGED <<api_key, client, model, nlp, ner_pipeline, other, estimate, prompt, service, attempts, requests, caught, result>>

RemoteReply == RemoteReplyOf(Contents)

\* the reply is parsed and mapped, or the tier fails
HandleReply ==
  /\ pc = "answered"
  /\ LET parsed == ParseReply(response)
     IN IF Returned(parsed)
        THEN /\ result' = parsed.v
             /\ pc' = "done"
             /\ UNCHANGED <<response, caught>>
        ELSE /\ caught' = Append(caught, parsed.exc)
             /\ pc' = DeepseekHandler(parsed.exc)
             /\ response' = PyNone
             /\ UNCHANGED result
  /\ UNCHANGED <<api_key, client, model, nlp, ner_pipeline, other, estimate, prompt, service, attempts, requests>>

\* finding person_names, had _extract_characters called self.ner_pipeline without
\* testing it: None is not callable
PersonNameOutcomesCallsPipeline(text) ==
  IF ner_pipeline # PyNone
  THEN {Raise("RuntimeError")} \cup {Return(names) : names \in SUBSET {n \in NerVocabulary : Contains(text, n)}}
  ELSE {Raise("TypeError")}
\* what finding person_names yields: the NER pipeline, when loaded, names some of the
\* persons it knows that occur in the text, or raises; without it the regex heuristic
PersonNameOutcomes(text) ==
  IF ner_pipeline # PyNone
  THEN {Raise("RuntimeError")} \cup {Return(names) : names \in SUBSET {n \in NerVocabulary : Contains(text, n)}}
  ELSE {Return(Range(RegexPersonNames(text)))}

\* _process_with_local_nlp, had it dropped the NER pipeline after a failure of it
LocalDisablesPipeline ==
  /\ pc = "local"
  /\ attempts' = Append(attempts, "Local")
  /\ \E found \in PersonNameOutcomes(prompt) :
       IF Returned(found)
       THEN /\ \E person_names \in NameOrders(found.v) : result' = ProcessWithLocalNlp(prompt, person_names)
            /\ pc' = "done"
            /\ UNCHANGED <<caught, ner_pipeline>>
       ELSE /\ caught' = Append(caught, found.exc)
            /\ pc' = OuterHandler(found.exc)
            /\ ner_pipeline' = PyNone
            /\ UNCHANGED result
  /\ UNCHANGED <<api_key, client, model, nlp, other, estimate, prompt, service, response, requests>>
\* _process_with_local_nlp runs
Local ==
  /\ pc = "local"
  /\ attempts' = Append(attempts, "Local")
  /\ \E found \in PersonNameOutcomes(prompt) :
       IF Returned(found)
       THEN /\ \E person_names \in NameOrders(found.v) : result' = ProcessWithLocalNlp(prompt, person_names)
            /\ pc' = "done"
            /\ UNCHANGED caught
       ELSE /\ caught' = Append(caught, found.exc)
            /\ pc' = OuterHandler(found.exc)
            /\ UNCHANGED result
  /\ UNCHANGED <<api_key, client, model, nlp, ner_pipeline, other, estimate, prompt, service, response, requests>>

\* _process_with_fallback runs
Fallback ==
  /\ pc = "fallback"
  /\ attempts' = Append(attempts, "Fallback")
  /\ result' = ProcessWithFallback(prompt)
  /\ pc' = "done"
  /\ UNCHANGED <<api_key, client, model, nlp, ner_pipeline, other, estimate, prompt, service, response, requests, caught>>

\* the caller has the scene; the processor is ready for the next call
Finish ==
  /\ pc = "done"
  /\ pc' = "idle"
  /\ prompt' = ""
  /\ service' = "up"
  /\ response' = PyNone
  /\ attempts' = <<>>
  /\ requests' = 0
  /\ caught' = <<>>
  /\ result' = NoScene
  /\ UNCHANGED <<api_key, client, model, nlp, ner_pipeline, other, estimate>>

Next ==
  \/ \E p \in Prompts : Call(p)
  \/ RemoteRequest
  \/ RemoteError
  \/ RemoteReply
  \/ HandleReply
  \/ Local
  \/ Fallback
  \/ Finish

Spec == Init /\ [][Next]_vars

\* a processor constructed without credential, no api_key argument and no
\* DEEPSEEK_API_KEY, and without spaCy model; the NER pipeline is loaded or not. Its
\* calls run the Local tier and, when that raises, the Fallback tier
InitNoClient == Init /\ client = NoClient /\ api_key = PyNone /\ nlp = PyNone
NextLocal ==
  \/ \E p \in LocalPrompts : Call(p)
  \/ Local
  \/ Fallback
  \/ Finish
LocalSpec == InitNoClient /\ [][NextLocal]_vars

\* two calls of one processor, in flight together: the scheduler suspends the call in
\* progress and resumes the other, at any step
Switch ==
  /\ other # Running
  /\ other' = Running
  /\ pc' = other.pc
  /\ prompt' = other.prompt
  /\ service' = other.service
  /\ response' = other.response
  /\ attempts' = other.attempts
  /\ requests' = other.requests
  /\ caught' = other.caught
  /\ result' = other.result
  /\ UNCHANGED <<api_key, client, model, nlp, ner_pipeline, estimate>>
NextConcurrent ==
  \/ \E p \in {"", "Alice: \"Hi!\""} : Call(p)
  \/ RemoteRequest
  \/ RemoteError
  \/ RemoteReplyOf({PyStr("{\"mood\": \"sad\"}"), PyStr("Sorry.")})
  \/ HandleReply
  \/ Local
  \/ Fallback
  \/ Finish
  \/ Switch
ConcurrentSpec == Init /\ [][NextConcurrent]_vars

\* _estimate_duration on its own: one call with a text of word_count words and a
\* dialogue of dialogue_count lines
Estimate(words, lines) ==
  /\ duration = 0
  /\ word_count' = words
  /\ dialogue_count' = lines
  /\ duration' = EstimateDuration(words, lines)
  /\ UNCHANGED <<api_key, client, model, nlp, ner_pipeline, pc, prompt, service, response, attempts, requests, caught, result, other>>
NextDuration == \E words \in 0..MaxWords, lines \in 0..MaxLines : Estimate(words, lines)
DurationSpec == InitNoClient /\ [][NextDuration]_vars

\* replies that hold two JSON objects with prose between them, and replies that are
\* valid JSON without the shape of a scene; one reply that maps to a scene
TwoObjectReplies ==
  { "{\"mood\": \"sad\"} and {\"mood\": \"happy\"}",
    "First {\"mood\": \"sad\"} then {\"mood\": \"happy\"}." }
ShapelessReplies ==
  { "null", "\"scene\"", "[]", "3.5",
    "{\"characters\": [\"Bob\"]}",
    "{\"dialogue\": [5]}",
    "{\"mood\": \"sad\", \"characters\": [{\"name\": \"Bob\"}], \"dialogue\": [null]}" }
\* the calls of a processor whose completion service sends these replies
NextReply ==
  \/ \E p \in {"", "Alice: \"Hi!\""} : Call(p)
  \/ RemoteRequest
  \/ RemoteError
  \/ RemoteReplyOf({PyStr(r) : r \in TwoObjectReplies \cup ShapelessReplies \cup {"{\"mood\": \"sad\"}"}})
  \/ HandleReply
  \/ Local
  \/ Fallback
  \/ Finish
ReplySpec == Init /\ [][NextReply]_vars

(***************************************************************************)
(* Properties of one call of process_natural_language_prompt.              *)
(***************************************************************************)
IsScene(x) == x.t = "ParsedScene"
Last(seq) == seq[Len(seq)]
TierRank(tier) == CASE tier = "Remote" -> 1 [] tier = "Local" -> 2 [] tier = "Fallback" -> 3
\* the tier that runs at a position of the call
TierAt(where) == CASE where = "answered" -> "Remote" [] where = "local" -> "Local" [] where = "fallback" -> "Fallback"

\* C1: for every prompt (the empty one included) and every combination of tier
\* outcomes, the call returns a ParsedScene and propagates no exception: no state has
\* the call raised, a finished call holds a ParsedScene, and no scene exists before.
C1_ExtractIsTotal ==
  /\ pc # "raised"
  /\ (pc = "done" => IsScene(result))
  /\ (pc # "done" => result = NoScene)
\* the empty prompt, with the Remote and the Local tier both failing
C1_AllTiersOnEmptyPrompt ==
  pc = "done" /\ prompt = "" /\ attempts = <<"Remote", "Local", "Fallback">> /\ IsScene(result)

\* C2: whichever tier produces the result, the returned ParsedScene has an integer
\* duration_estimate with 5 <= duration_estimate <= 30, also when the Remote tier
\* succeeds with a reply that carries any integer.
C2_DurationWithinBounds ==
  pc = "done" => /\ result.duration_estimate.t = "int"
                 /\ result.duration_estimate.v >= 5
                 /\ result.duration_estimate.v <= 30

\* C3: the Remote tier is attempted first iff a client is configured; the Local tier
\* is attempted exactly when the Remote tier is unconfigured or has failed; the
\* Fallback tier exactly when the Local tier raised; the first tier that succeeds
\* ends the call with its scene: every tier before the last attempted one failed.
C3_TierTransitions ==
  /\ [](pc = "done" => Len(caught) = Len(attempts) - 1)
  /\ [][ /\ (pc = "idle" => pc' = (IF client # NoClient THEN "remote" ELSE "local"))
         /\ (pc' = "remote" => pc = "idle" /\ client # NoClient)
         /\ (pc' = "local" <=> \/ (pc = "idle" /\ client = NoClient)
                               \/ (pc \in {"waiting", "answered"} /\ Len(caught') = Len(caught) + 1))
         /\ (pc' = "fallback" <=> (pc = "local" /\ Len(caught') = Len(caught) + 1))
         /\ (pc' = "done" => /\ pc \in {"answered", "local", "fallback"}
                             /\ caught' = caught
                             /\ Last(attempts') = TierAt(pc)
                             /\ IsScene(result')) ]_vars
\* the Remote tier fails on a connection error and the Local tier answers
C3_RemoteFailedLocalAnswered ==
  pc = "done" /\ attempts = <<"Remote", "Local">> /\ caught = <<"APIConnectionError">>

\* C4: within one call each tier is attempted at most once and no higher tier after
\* a lower one (the tiers attempted strictly descend), and once the call is done the
\* only step left is its end: no tier runs again.
C4_TiersAtMostOnce ==
  /\ [](\A i, j \in 1..Len(attempts) : i < j => TierRank(attempts[i]) < TierRank(attempts[j]))
  /\ [][pc = "done" => (pc' = "idle" /\ attempts' = <<>>)]_vars
\* the call has demoted twice and is about to run the Fallback tier
C4_DemotedTwice == pc = "fallback" /\ attempts = <<"Remote", "Local">> /\ Len(caught) = 2

\* C5: without a credential the client is None, and with the client None a call
\* skips the Remote tier without raising: it issues no request, never stands in the
\* Remote tier, and the first tier it attempts is the Local tier.
C5_NoClientSkipsRemote ==
  /\ (~Truthy(api_key) => client = NoClient)
  /\ (client = NoClient => /\ requests = 0
                           /\ pc \notin {"remote", "waiting", "answered", "raised"}
                           /\ (attempts # <<>> => attempts[1] = "Local")
                           /\ \A i \in 1..Len(attempts) : attempts[i] # "Remote")
\* a call without client that the Local tier answered
C5_LocalFirstWithoutClient == client = NoClient /\ pc = "done" /\ attempts = <<"Local">> /\ IsScene(result)

\* C6: one call issues at most one completion request, and only the Remote tier
\* issues it: the request count changes only when the Remote tier sends its request
\* (and when the call ends), so the Local and Fallback tiers issue none.
C6_AtMostOneRequest ==
  /\ [](requests <= 1)
  /\ [][requests' # requests => \/ (pc = "remote" /\ requests' = requests + 1)
                                \/ (pc = "done" /\ requests' = 0)]_vars
\* the Fallback tier is about to run after a Remote failure: one request so far
C6_OneRequestBeforeFallback == pc = "fallback" /\ requests = 1 /\ attempts = <<"Remote", "Local">>

\* C7: a completion call that never answers is ended by a timeout and handled as a
\* remote failure, so the call goes on: a call waiting on a silent service always
\* has a next step.
C7_SilentCallIsEnded == (pc = "waiting" /\ service = "silent") => ENABLED Next

\* a reply that json.loads rejects and that holds no {...} substring json.loads accepts
SalvageFails(content) ==
  /\ content.t = "str"
  /\ ~Returned(JsonLoads(content))
  /\ LET json_match == ReSearch(json_pattern, content.v, FALSE)
     IN ~json_match.ok \/ ~Returned(JsonLoads(PyStr(Group0(content.v, json_match))))
\* C8: a reply that cannot be parsed directly and whose salvage fails too yields no
\* scene of the Remote tier: the call demotes to the Local tier with no scene and no
\* further request, and the scene it returns comes from the Local or the Fallback
\* tier (whose description is the prompt).
C8_MalformedReplyDemotes ==
  /\ [][(pc = "answered" /\ SalvageFails(response))
          => (pc' = "local" /\ result' = NoScene /\ requests' = requests
              /\ Last(caught') \in {"JSONDecodeError", "Exception"})]_vars
  /\ []((pc = "done" /\ caught # <<>> /\ caught[1] \in {"JSONDecodeError", "Exception"})
          => (Last(attempts) \in {"Local", "Fallback"} /\ result.description = PyStr(prompt)))
\* the salvaged substring was no JSON; the Local tier answered
C8_SalvageFailedLocalAnswered ==
  pc = "done" /\ caught = <<"JSONDecodeError">> /\ attempts = <<"Remote", "Local">>

\* the replies that wrap, in prose before and/or after it, a JSON object that maps
\* to a scene when sent alone; each with that scene
WrappedObjects ==
  {<<PyStr(around[1] \o body \o around[2]), ConvertToParsedScene(JsonLoads(PyStr(body)).v).v>> :
     around \in Prose \ {<<"", "">>},
     body \in {b \in ReplyBodies : /\ Returned(JsonLoads(PyStr(b)))
                                  /\ JsonLoads(PyStr(b)).v.t = "dict"
                                  /\ Returned(ConvertToParsedScene(JsonLoads(PyStr(b)).v))}}
\* C9: a reply that is a JSON object wrapped in explanatory prose succeeds through the
\* salvage step: the call returns the scene mapped from that object, and neither the
\* Local nor the Fallback tier is attempted.
C9_ProseWrappedObjectSalvaged ==
  [][pc = "answered" => \A w \in WrappedObjects :
       w[1] = response => (pc' = "done" /\ result' = w[2] /\ attempts' = attempts)]_vars

\* the value of a key of a reply object, or the default the key has
OrDefault(obj, key, default) == IF key \in DOMAIN obj.v THEN obj.v[key] ELSE default
\* a reply object whose characters and dialogue, when present, are lists of objects
ListsOfObjects(data) ==
  /\ data.t = "dict"
  /\ \A key \in {"characters", "dialogue"} \cap DOMAIN data.v :
       data.v[key].t = "list" /\ \A i \in DOMAIN data.v[key].v : data.v[key].v[i].t = "dict"
\* the scene of a reply object: every present key copied, every missing key defaulted
SceneWithDefaults(data) ==
  LET chars == OrDefault(data, "characters", PyList(<<>>)).v
      dials == OrDefault(data, "dialogue", PyList(<<>>)).v
  IN [t |-> "ParsedScene",
      description |-> OrDefault(data, "description", PyStr("")),
      characters |-> PyList([i \in DOMAIN chars |->
         [t |-> "Character",
          name |-> OrDefault(chars[i], "name", PyStr("")),
          description |-> OrDefault(chars[i], "description", PyStr("")),
          voice_characteristics |-> OrDefault(chars[i], "voice_characteristics", PyStr("")),
          emotions |-> OrDefault(chars[i], "emotions", PyList(<<>>)),
          actions |-> OrDefault(chars[i], "actions", PyList(<<>>))]]),
      dialogue |-> PyList([i \in DOMAIN dials |->
         [t |-> "DialogueLine",
          character |-> OrDefault(dials[i], "character", PyStr("")),
          text |-> OrDefault(dials[i], "text", PyStr("")),
          emotion |-> OrDefault(dials[i], "emotion", PyStr("neutral")),
          action |-> OrDefault(dials[i], "action", PyStr("")),
          timing |-> OrDefault(dials[i], "timing", PyFloat(0)),
          non_verbal |-> OrDefault(dials[i], "non_verbal", PyList(<<>>))]]),
      actions |-> OrDefault(data, "actions", PyList(<<>>)),
      environment |-> OrDefault(data, "environment", PyStr("")),
      mood |-> OrDefault(data, "mood", PyStr("neutral")),
      duration_estimate |-> OrDefault(data, "duration_estimate", PyInt(10))]
\* C10: when the Remote tier parses a reply object, every field of the ParsedScene,
\* of its Characters and of its DialogueLines whose key is missing takes its default
\* (empty list, empty string, "neutral" for emotion and mood, 0.0 for timing), every
\* present key is copied unchanged, and a missing key never makes the tier fail.
C10_MissingKeysTakeDefaults ==
  [][(pc = "answered" /\ Returned(JsonLoads(response)) /\ ListsOfObjects(JsonLoads(response).v))
       => (pc' = "done" /\ result' = SceneWithDefaults(JsonLoads(response).v))]_vars
\* a reply with a character and a dialogue line that are empty objects, and no mood
C10_EmptyObjectsMapped ==
  /\ pc = "done" /\ attempts = <<"Remote">>
  /\ Len(result.characters.v) = 2 /\ result.characters.v[1].name = PyStr("Bob")
  /\ result.characters.v[2].name = PyStr("") /\ result.characters.v[2].emotions = PyList(<<>>)
  /\ Len(result.dialogue.v) = 2 /\ result.dialogue.v[1].text = PyStr("Hi")
  /\ result.dialogue.v[2].emotion = PyStr("neutral") /\ result.dialogue.v[2].timing = PyFloat(0)
  /\ result.mood = PyStr("neutral")

(***************************************************************************)
(* Properties of the Local Linguistic Extractor.                           *)
(***************************************************************************)
\* the call is done and the Local tier produced its scene
LocalAnswered == pc = "done" /\ Last(attempts) = "Local"
\* the matches of a pattern in the prompt
Matches(pattern) == ReFindIter(pattern, prompt, FALSE)
\* the speaker and the text of every line, in order
Spoken(lines) == [i \in DOMAIN lines |-> <<lines[i].character.v, lines[i].text.v>>]
\* speaker and text of the matches of pattern 1, of pattern 2, of pattern 3
Spoken1 == [i \in DOMAIN Matches(pattern1) |-> <<Group(prompt, Matches(pattern1)[i], 1), Group(prompt, Matches(pattern1)[i], 2)>>]
Spoken2 == [i \in DOMAIN Matches(pattern2) |-> <<Group(prompt, Matches(pattern2)[i], 2), Group(prompt, Matches(pattern2)[i], 1)>>]
Spoken3 == [i \in DOMAIN Matches(pattern3) |-> <<"Character" \o ToString(i), Group(prompt, Matches(pattern3)[i], 1)>>]

ConsistsOf(pattern) ==
  /\ Len(Matches(pattern)) = 1
  /\ Matches(pattern)[1].start = 1 /\ Matches(pattern)[1].end = Len(prompt) + 1
\* the emotion the surface cues of a text give: an exclamation mark, else a question
\* mark, else an ellipsis, else a text entirely in upper case, else none
SurfaceCue(text) ==
  CASE Contains(text, "!") -> "excited"
    [] ~Contains(text, "!") /\ Contains(text, "?") -> "questioning"
    [] ~Contains(text, "!") /\ ~Contains(text, "?") /\ Contains(text, "...") -> "hesitant"
    [] OTHER -> IF IsUpper(text) THEN "angry" ELSE "neutral"
\* character, text and emotion of every line, in order
Attributed(lines) == [i \in DOMAIN lines |-> <<lines[i].character, lines[i].text, lines[i].emotion>>]

\* C12: without a client, a prompt that is one colon-attributed quote Name: "text"
\* yields exactly one DialogueLine: its character is Name, its text the quoted content
\* verbatim, its emotion the one the surface cues give; Alice: "I can't believe it!"
\* yields {Alice, I can't believe it!, excited}.
C12_ColonQuoteOneLine ==
  /\ LocalAnswered /\ ConsistsOf(pattern1) =>
       Attributed(result.dialogue.v) =
         << <<PyStr(Spoken1[1][1]), PyStr(Spoken1[1][2]), PyStr(SurfaceCue(Spoken1[1][2]))>> >>
  /\ LocalAnswered /\ prompt = "Alice: \"I can't believe it!\"" =>
       Attributed(result.dialogue.v) = << <<PyStr("Alice"), PyStr("I can't believe it!"), PyStr("excited")>> >>
\* the example of the claim has been answered by the Local tier with its one line
C12_AliceExcited ==
  /\ LocalAnswered /\ prompt = "Alice: \"I can't believe it!\"" /\ ConsistsOf(pattern1)
  /\ Len(result.dialogue.v) = 1 /\ result.dialogue.v[1].emotion = PyStr("excited")

\* a quote, an attribution verb and a capitalized name: the verbs of pattern 2 and the
\* verb of the example
verb_attributed_quote ==
  Quoted(1) \o <<RPlus(WS), RWords(<<"said", "says", "asks", "asked", "replies", "responds">>), RPlus(WS), RGrp(2, CapWord)>>

\* C13: without a client, a prompt that is one quote followed by an attribution verb and
\* a capitalized name yields exactly one DialogueLine attributed to that name, not to a
\* placeholder; "Where are we going?" asked Bob yields {Bob, Where are we going?,
\* questioning}.
C13_VerbQuoteAttributedToName ==
  LocalAnswered /\ ConsistsOf(verb_attributed_quote) =>
    Attributed(result.dialogue.v) =
      << <<PyStr(Group(prompt, Matches(verb_attributed_quote)[1], 2)),
           PyStr(Group(prompt, Matches(verb_attributed_quote)[1], 1)),
           PyStr(SurfaceCue(Group(prompt, Matches(verb_attributed_quote)[1], 1)))>> >>

\* a speaker name of the form CharacterN
IsPlaceholder(name) == \E n \in 0..Len(prompt) : name = "Character" \o ToString(n)

\* C14: in the Local tier a placeholder speaker is produced only when patterns 1 and 2
\* both match nothing; then the n bare quotes of the text yield exactly n lines, in
\* order of appearance, spoken by Character1, ..., Charactern; "Hello." "Goodbye."
\* yields two lines, for Character1 then Character2.
C14_PlaceholdersOnlyWithoutAttribution ==
  /\ LocalAnswered /\ (\E i \in DOMAIN result.dialogue.v : IsPlaceholder(result.dialogue.v[i].character.v)) =>
       Len(Matches(pattern1)) = 0 /\ Len(Matches(pattern2)) = 0
  /\ LocalAnswered /\ Len(Matches(pattern1)) = 0 /\ Len(Matches(pattern2)) = 0 =>
       /\ Len(result.dialogue.v) = Len(Matches(pattern3))
       /\ \A i \in DOMAIN result.dialogue.v :
            /\ result.dialogue.v[i].character = PyStr("Character" \o ToString(i))
            /\ result.dialogue.v[i].text = PyStr(Group(prompt, Matches(pattern3)[i], 1))
       /\ \A i, j \in DOMAIN result.dialogue.v :
            i < j => Matches(pattern3)[i].start < Matches(pattern3)[j].start
  /\ LocalAnswered /\ prompt = "\"Hello.\" \"Goodbye.\"" =>
       Spoken(result.dialogue.v) = << <<"Character1", "Hello.">>, <<"Character2", "Goodbye.">> >>
\* two bare quotes have been answered by the Local tier with two placeholder lines
C14_TwoBareQuotes ==
  /\ LocalAnswered /\ prompt = "\"Hello.\" \"Goodbye.\""
  /\ Len(Matches(pattern1)) = 0 /\ Len(Matches(pattern2)) = 0 /\ Len(Matches(pattern3)) = 2
  /\ Len(result.dialogue.v) = 2 /\ IsPlaceholder(result.dialogue.v[2].character.v)

(***************************************************************************)
(* Properties of the environment, in every tier.                           *)
(***************************************************************************)
\* a reply that parses to an object without the key environment
ReplyWithoutEnvironment ==
  /\ Returned(JsonLoads(response)) /\ JsonLoads(response).v.t = "dict"
  /\ "environment" \notin DOMAIN JsonLoads(response).v.v
\* neither a location pattern nor an environment word is found in the prompt
NoLocationCue ==
  /\ ~FirstLocation(prompt, location_patterns).ok
  /\ \A i \in DOMAIN env_words : ~ContainsLowered(prompt, env_words[i])

\* C15: in every ParsedScene returned, from any tier, environment is a non-null string,
\* and it is the literal "unspecified location" whenever no location information is
\* available: the Local tier without a heuristic hit, the Fallback tier, a Remote reply
\* without an environment value.
C15_EnvironmentDefaultsToUnspecifiedLocation ==
  pc = "done" =>
    /\ result.environment.t = "str"
    /\ Last(attempts) = "Local" /\ NoLocationCue => result.environment = PyStr("unspecified location")
    /\ Last(attempts) = "Fallback" => result.environment = PyStr("unspecified location")
    /\ Last(attempts) = "Remote" /\ ReplyWithoutEnvironment => result.environment = PyStr("unspecified location")

\* the first slug marker INT. or EXT. of the prompt and the text captured after it, up
\* to the first hyphen or line end
Slug == ReSearch(location_patterns[2], prompt, TRUE)
SlugText == Strip(Group(prompt, Slug, 1))
\* the first prepositional place phrase of the prompt (in, at, inside, outside ... and
\* a place noun before the next full stop)
PlacePhrase == ReSearch(location_patterns[1], prompt, TRUE)

\* C16 as stated: without a client, for every input that contains a slug line such as
\* INT. COFFEE SHOP - DAY, whatever other text surrounds it, the environment is the
\* text captured from the slug line and not the default.
C16_SlugTextIsEnvironment ==
  LocalAnswered /\ Slug.ok =>
    result.environment = PyStr(SlugText) /\ result.environment # PyStr("unspecified location")
\* C16 as amended: without a client, for every input that contains a slug line and no
\* prepositional place phrase, the environment is the text captured after the first
\* slug marker, stripped, and not the default; for INT. COFFEE SHOP - DAY it is
\* COFFEE SHOP.
C16_SlugTextUnlessPlacePhrase ==
  /\ LocalAnswered /\ Slug.ok /\ ~PlacePhrase.ok =>
       result.environment = PyStr(SlugText) /\ result.environment # PyStr("unspecified location")
  /\ LocalAnswered /\ prompt = "INT. COFFEE SHOP - DAY" => result.environment = PyStr("COFFEE SHOP")
\* a slug line beside a quote, no place phrase: the Local tier has returned the slug text
C16_SlugBesideQuote ==
  /\ LocalAnswered /\ prompt = "Alice: \"Hi!\" INT. COFFEE SHOP - DAY"
  /\ Slug.ok /\ ~PlacePhrase.ok
  /\ result.environment = PyStr("COFFEE SHOP")

(***************************************************************************)
(* Properties of the mood.                                                 *)
(***************************************************************************)
\* the categories, in their fixed order
MoodOrder == <<"happy", "sad", "tense", "romantic", "comedic", "mysterious">>
\* a keyword of the category is present in the lower-cased prompt
Present(mood) ==
  \E i \in DOMAIN mood_indicators :
    /\ mood_indicators[i].mood = mood
    /\ \E keyword \in mood_indicators[i].indicators : Contains(Lower(prompt), keyword)

\* C17: the mood of the Local tier is the first category, in the order happy, sad,
\* tense, romantic, comedic, mysterious, with a keyword present in the lower-cased
\* text; it is "neutral" exactly when no keyword of any category is present; it is
\* always one of the six categories or "neutral".
C17_FirstMoodCategoryWins ==
  LocalAnswered =>
    /\ result.mood.t = "str"
    /\ result.mood.v \in Range(MoodOrder) \cup {"neutral"}
    /\ result.mood.v = "neutral" <=> \A i \in DOMAIN MoodOrder : ~Present(MoodOrder[i])
    /\ \A i \in DOMAIN MoodOrder :
         result.mood.v = MoodOrder[i] <=> (Present(MoodOrder[i]) /\ \A j \in 1..(i - 1) : ~Present(MoodOrder[j]))

\* keywords of three later categories: the Local tier says the first of them, romantic
C17_RomanticBeforeComedic ==
  /\ LocalAnswered /\ prompt = "A strange, funny and tender night."
  /\ Present("romantic") /\ Present("comedic") /\ Present("mysterious")
  /\ result.mood = PyStr("romantic")

(***************************************************************************)
(* Properties of repeated and concurrent calls.                            *)
(***************************************************************************)
\* C18: without a client, two calls on the same input, in the same or in different
\* processes, return identical ParsedScene values, every list in the same order, the
\* characters list included: the scene returned for a prompt is the scene of every
\* run on that prompt, whichever order list(set(person_names)) takes in the run.
C18_SameInputSameScene ==
  pc = "done" /\ ner_pipeline = PyNone =>
    \A person_names \in NameOrders(Range(RegexPersonNames(prompt))) :
      result = ProcessWithLocalNlp(prompt, person_names)

\* C20: the dialogue of the Local tier is in textual order of occurrence: of two lines,
\* the one whose quote starts earlier in the prompt comes first, also when the prompt
\* mixes colon-attributed and verb-attributed quotes. The quotes of the prompt, left to
\* right, are the matches of pattern 3; the lines follow them in increasing order.
C20_DialogueInTextualOrder ==
  LocalAnswered /\ Len(result.dialogue.v) > 0 =>
    \E quote \in [DOMAIN result.dialogue.v -> DOMAIN Matches(pattern3)] :
      /\ \A i, j \in DOMAIN quote : i < j => quote[i] < quote[j]
      /\ \A i \in DOMAIN quote : result.dialogue.v[i].text.v = Group(prompt, Matches(pattern3)[quote[i]], 1)

\* the scene a finished call holds is one the call returns when it runs alone on this
\* processor: the mapped reply of its own request, or a scene of the Local tier for its
\* own prompt, or the scene of the Fallback tier for its own prompt
ReturnsAsAlone(call) ==
  /\ call.attempts[1] = (IF client # NoClient THEN "Remote" ELSE "Local")
  /\ CASE Last(call.attempts) = "Remote" ->
            Returned(ParseReply(call.response)) /\ call.result = ParseReply(call.response).v
       [] Last(call.attempts) = "Local" ->
            \E found \in PersonNameOutcomes(call.prompt) :
              /\ Returned(found)
              /\ \E person_names \in NameOrders(found.v) :
                   call.result = ProcessWithLocalNlp(call.prompt, person_names)
       [] Last(call.attempts) = "Fallback" -> call.result = ProcessWithFallback(call.prompt)
\* no step is a write to a field of the processor
FieldsUnchanged == UNCHANGED <<api_key, client, model, nlp, ner_pipeline>>
\* a step of one call leaves the locals of the other call alone: they change only when
\* the two calls change places
OtherCallUntouched == other' # other => (other' = Running /\ Running' = other)

\* C19: calls are stateless and independent. No step of a call writes a field of the
\* processor (api_key, client, model, nlp, ner_pipeline), no step of a call touches the
\* locals of the other call, and in every interleaving of two calls each finished call
\* holds a scene it returns when run alone.
C19_CallsAreIndependent ==
  /\ [](pc = "done" => ReturnsAsAlone(Running))
  /\ [](other.pc = "done" => ReturnsAsAlone(other))
  /\ [][FieldsUnchanged /\ OtherCallUntouched]_vars
\* two calls interleaved and both finished: one answered by the Remote tier, the other,
\* on another prompt, by the Local tier after its own request failed
C19_TwoCallsFinished ==
  /\ pc = "done" /\ other.pc = "done"
  /\ prompt # other.prompt
  /\ attempts = <<"Remote", "Local">> /\ other.attempts = <<"Remote">>
  /\ ReturnsAsAlone(Running) /\ ReturnsAsAlone(other)

(***************************************************************************)
(* Properties of the emotion of a line.                                    *)
(***************************************************************************)
\* the text has a cased character and no lower-case one
EntirelyUpper(text) ==
  /\ \E i \in 1..Len(text) : SubSeq(text, i, i) \in UpperSet
  /\ \A i \in 1..Len(text) : SubSeq(text, i, i) \notin LowerSet
\* the first cue, in the order of the chain, that the text shows
FirstCue(text) ==
  LET chain == << [shown |-> Contains(text, "!"), tag |-> "excited"],
                  [shown |-> Contains(text, "?"), tag |-> "questioning"],
                  [shown |-> Contains(text, "..."), tag |-> "hesitant"],
                  [shown |-> EntirelyUpper(text), tag |-> "angry"],
                  [shown |-> TRUE, tag |-> "neutral"] >>
  IN chain[SetMin({i \in DOMAIN chain : chain[i].shown})].tag

\* C21: the emotion of a line of the Local tier is a priority chain over the quoted
\* text: '!' gives excited, else '?' questioning, else '...' hesitant, else a text
\* entirely in upper case angry, else neutral. It is always one of these five tags, and
\* an upper-case line with '!' is excited, not angry.
C21_EmotionPriorityChain ==
  LocalAnswered =>
    \A i \in DOMAIN result.dialogue.v :
      /\ result.dialogue.v[i].emotion = PyStr(FirstCue(result.dialogue.v[i].text.v))
      /\ result.dialogue.v[i].emotion.v \in {"excited", "questioning", "hesitant", "angry", "neutral"}
      /\ EntirelyUpper(result.dialogue.v[i].text.v) /\ Contains(result.dialogue.v[i].text.v, "!")
           => result.dialogue.v[i].emotion = PyStr("excited")
\* lines in upper case with and without an exclamation mark, and a line with both a
\* question mark and an ellipsis, have been answered by the Local tier
C21_UpperCaseLines ==
  /\ LocalAnswered /\ Len(result.dialogue.v) = 4
  /\ Attributed(result.dialogue.v) =
       << <<PyStr("Alice"), PyStr("STOP!"), PyStr("excited")>>, <<PyStr("Bob"), PyStr("NO"), PyStr("angry")>>,
          <<PyStr("Alice"), PyStr("WHY?!"), PyStr("excited")>>, <<PyStr("Bob"), PyStr("Well... ok?"), PyStr("questioning")>> >>

(***************************************************************************)
(* Properties of the Deterministic Fallback Extractor.                     *)
(***************************************************************************)
\* the call is done and the Fallback tier produced its scene
FallbackAnswered == pc = "done" /\ Last(attempts) = "Fallback"

\* C22: in the Fallback tier every bare quoted substring of the prompt becomes one
\* DialogueLine with a placeholder name, Character1, Character2, ... in order of
\* appearance, whose emotion is the one the surface cues of the quote give, as in the
\* Local tier.
C22_FallbackLinesCarryEmotion ==
  FallbackAnswered =>
    /\ Len(result.dialogue.v) = Len(Matches(pattern3))
    /\ \A i \in DOMAIN result.dialogue.v :
         /\ result.dialogue.v[i].character = PyStr("Character" \o ToString(i))
         /\ result.dialogue.v[i].text = PyStr(Group(prompt, Matches(pattern3)[i], 1))
         /\ result.dialogue.v[i].emotion = PyStr(FirstCue(result.dialogue.v[i].text.v))

\* C23: for every prompt, the empty one included, the Fallback tier returns without
\* raising a ParsedScene whose description is the whole prompt unmodified, whose
\* characters are exactly one placeholder Character, whose actions, environment and
\* mood are fixed values and whose duration_estimate is 10.
C23_FallbackSceneIsFixed ==
  [][pc = "fallback" =>
       /\ pc' = "done"
       /\ IsScene(result')
       /\ result'.description = PyStr(prompt)
       /\ Len(result'.characters.v) = 1
       /\ result'.characters.v[1] = [t |-> "Character", name |-> PyStr("Character1"), description |-> PyStr(""),
                                     voice_characteristics |-> PyStr(""), emotions |-> PyList(<<>>), actions |-> PyList(<<>>)]
       /\ result'.actions = PyList(<<PyStr("scene action")>>)
       /\ result'.environment = PyStr("unspecified")
       /\ result'.mood = PyStr("neutral")
       /\ result'.duration_estimate = PyInt(10)]_vars
\* the Fallback tier has answered the empty prompt
C23_FallbackOnEmptyPrompt ==
  /\ FallbackAnswered /\ prompt = "" /\ result.description = PyStr("")
  /\ Len(result.characters.v) = 1 /\ result.dialogue = PyList(<<>>)
  /\ result.duration_estimate = PyInt(10)

(***************************************************************************)
(* Properties of the environment of the Local tier.                        *)
(***************************************************************************)
\* (c) the first label setting:, location: or place: of the prompt
Label == ReSearch(location_patterns[3], prompt, TRUE)
\* (d) the descriptive keywords found in the lower-cased prompt, in the order of the list
Keywords == SelectSeq(env_words, LAMBDA word : Contains(Lower(prompt), word))
\* what a pattern heuristic finds when it has a hit, and else what the later ones find
Found(match, later) == IF match.ok THEN Strip(Group(prompt, match, 1)) ELSE later
\* what a list of keywords gives when it is not empty, and else what the later ones find
Joined(keywords, later) == IF Len(keywords) > 0 THEN Join(", ", keywords) ELSE later

\* C24: the environment of the Local tier is what the first heuristic with a hit finds,
\* in the order (a) prepositional place phrase, (b) slug line, (c) label, (d) the
\* comma-joined descriptive keywords, (e) the literal "unspecified location": a later
\* heuristic determines the result only when every earlier one found nothing.
C24_FirstEnvironmentHeuristicWins ==
  LocalAnswered =>
    result.environment =
      PyStr(Found(PlacePhrase, Found(Slug, Found(Label, Joined(Keywords, "unspecified location")))))
\* a label and a keyword: the Local tier has returned the text of the label
C24_LabelBeforeKeywords ==
  /\ LocalAnswered /\ prompt = "location: a dark cave"
  /\ ~PlacePhrase.ok /\ ~Slug.ok /\ Label.ok /\ Keywords = <<"dark">>
  /\ result.environment = PyStr("a dark cave")

(***************************************************************************)
(* Properties of the duration estimate.                                    *)
(***************************************************************************)
\* the larger and the smaller of two integers
Larger(a, b) == IF a >= b THEN a ELSE b
Smaller(a, b) == IF a <= b THEN a ELSE b

\* C25: the Local duration estimate is min(30, max(max(5, floor(word_count / 20)),
\* 3 * dialogue_count)): an integer in 5..30, non-decreasing in the word count and in
\* the dialogue count, and 30 whenever word_count >= 600 or dialogue_count >= 10.
C25_DurationFormula ==
  duration # 0 =>
    /\ duration = Smaller(30, Larger(Larger(5, word_count \div 20), 3 * dialogue_count))
    /\ duration \in 5..30
    /\ (word_count >= 600 \/ dialogue_count >= 10) => duration = 30
    /\ duration <= EstimateDuration(word_count + 1, dialogue_count)
    /\ duration <= EstimateDuration(word_count, dialogue_count + 1)
\* an estimate between the bounds that the dialogue decides: 300 words, 7 lines
C25_DialogueDecides ==
  word_count = 300 /\ dialogue_count = 7 /\ duration = 21

(***************************************************************************)
(* Properties of the characters of the Local tier.                         *)
(***************************************************************************)
\* the names of a sequence in the order of their first occurrence, each once
RECURSIVE InDetectionOrder(_, _)
InDetectionOrder(names, seen) ==
  IF Len(names) = 0 THEN <<>>
  ELSE IF names[1] \in seen THEN InDetectionOrder(Tail(names), seen)
  ELSE <<names[1]>> \o InDetectionOrder(Tail(names), seen \cup {names[1]})
\* the names of the Characters returned, in order
CharacterNames == [i \in DOMAIN result.characters.v |-> result.characters.v[i].name.v]

\* C26: the characters of the Local tier hold one Character per distinct detected name:
\* no two share a name, none is named the, and, but or or in any letter case, and they
\* stand in detection order, the order of the first occurrence of their names in the
\* prompt. Stated for the regex detection, whose matches the prompt determines.
C26_CharactersInDetectionOrder ==
  LocalAnswered /\ ner_pipeline = PyNone =>
    /\ \A i, j \in DOMAIN CharacterNames : CharacterNames[i] = CharacterNames[j] => i = j
    /\ \A i \in DOMAIN CharacterNames : Lower(CharacterNames[i]) \notin {"the", "and", "but", "or"}
    /\ CharacterNames =
         SelectSeq(InDetectionOrder(RegexPersonNames(prompt), {}),
                   LAMBDA name : Lower(name) \notin {"the", "and", "but", "or"})

\* the capitalised words of the prompt that a colon or a quotation mark follows, with at
\* most white space in between: an upper-case letter at a word boundary, the run of
\* lower-case letters after it, then the colon or the quotation mark
HeuristicNames ==
  LET cs == Chars(prompt)
      RunEnd(i) == i + RunLen(cs, i + 1, RIn(LowerSet), FALSE)
      CueAt(j) == j + 1 + RunLen(cs, j + 1, RIn(Whitespace), FALSE)
  IN { SubSeq(prompt, i, RunEnd(i)) :
         i \in { i \in 1..Len(prompt) :
                   /\ cs[i] \in UpperSet
                   /\ i = 1 \/ cs[i - 1] \notin WordChars
                   /\ RunEnd(i) > i
                   /\ CueAt(RunEnd(i)) <= Len(prompt)
                   /\ cs[CueAt(RunEnd(i))] \in {":", "\""} } }

\* C27: without the NER pipeline (ner_pipeline is None) the Local tier is never demoted:
\* the call ends on the Local tier's own scene, with nothing caught, and the characters
\* of that scene are the names of the regex heuristic, the capitalised words followed by
\* a colon or a quotation mark, without the, and, but and or.
C27_RegexHeuristicWithoutNer ==
  ner_pipeline = PyNone =>
    /\ pc \notin {"fallback", "raised"}
    /\ pc = "done" =>
         /\ attempts = <<"Local">>
         /\ caught = <<>>
         /\ IsScene(result)
         /\ Range(CharacterNames) = {n \in HeuristicNames : Lower(n) \notin false_positives}
\* without the pipeline, the Local tier answered a prompt in which the heuristic finds names
C27_HeuristicFoundNames ==
  /\ ner_pipeline = PyNone
  /\ LocalAnswered
  /\ HeuristicNames # {}
  /\ Len(CharacterNames) = Cardinality(HeuristicNames)

(***************************************************************************)
(* Properties of the handling of replies that hold several objects or no   *)
(* scene.                                                                  *)
(***************************************************************************)
\* the position of the brace that closes the object open at depth, scanning from i; 0
\* when the text ends first
RECURSIVE BalancedEnd(_, _, _)
BalancedEnd(cs, i, depth) ==
  IF i > Len(cs) THEN 0
  ELSE IF cs[i] = "{" THEN BalancedEnd(cs, i + 1, depth + 1)
  ELSE IF cs[i] = "}" THEN (IF depth = 1 THEN i ELSE BalancedEnd(cs, i + 1, depth - 1))
  ELSE BalancedEnd(cs, i + 1, depth)
\* the first balanced {...} substring of the text that starts at position from or later
BalancedFrom(text, from) ==
  LET opens == {i \in from..Len(text) : SubSeq(text, i, i) = "{"}
  IN IF opens = {} \/ BalancedEnd(Chars(text), SetMin(opens) + 1, 1) = 0
     THEN [ok |-> FALSE, start |-> 0, end |-> 0]
     ELSE [ok |-> TRUE, start |-> SetMin(opens), end |-> BalancedEnd(Chars(text), SetMin(opens) + 1, 1) + 1]
\* whether the match is a JSON object
IsObject(text, m) ==
  /\ m.ok
  /\ Returned(JsonLoads(PyStr(Group0(text, m))))
  /\ JsonLoads(PyStr(Group0(text, m))).v.t = "dict"
\* a reply that is not JSON as a whole and holds a JSON object, prose, and another
\* JSON object
HoldsTwoObjects(content) ==
  /\ content.t = "str"
  /\ ~Returned(JsonLoads(content))
  /\ IsObject(content.v, BalancedFrom(content.v, 1))
  /\ IsObject(content.v, BalancedFrom(content.v, BalancedFrom(content.v, 1).end + 1))
\* the scene mapped from the first object of the reply
FirstObjectScene(content) ==
  ConvertToParsedScene(JsonLoads(PyStr(Group0(content.v, BalancedFrom(content.v, 1)))).v)

\* C28: when direct parsing fails, the salvage step parses the first balanced
\* object-like substring: for a reply that holds two or more separate JSON objects with
\* prose between them, the Remote tier succeeds with the scene mapped from the first
\* object, and no other tier is attempted.
C28_SalvageTakesFirstObject ==
  [][(pc = "answered" /\ HoldsTwoObjects(response))
       => (/\ Returned(FirstObjectScene(response))
           /\ pc' = "done"
           /\ result' = FirstObjectScene(response).v
           /\ attempts' = attempts)]_vars

\* valid JSON without the shape of a scene: the value is a list, a number, a string or
\* null, or an entry of its characters or of its dialogue is not an object
Shapeless(value) ==
  \/ value.t \in {"list", "int", "float", "str", "None"}
  \/ /\ value.t = "dict"
     /\ \E key \in {"characters", "dialogue"} :
          /\ key \in DOMAIN value.v
          /\ value.v[key].t = "list"
          /\ \E i \in DOMAIN value.v[key].v : value.v[key].v[i].t # "dict"
\* the reply parses as JSON, to a value without the shape of a scene
ShapelessReply(content) ==
  /\ content.t = "str"
  /\ Returned(JsonLoads(content))
  /\ Shapeless(JsonLoads(content).v)

\* C30: a reply that is valid JSON but not shaped like a scene fails the Remote tier:
\* the AttributeError is caught, the call goes on in the Local tier without a scene and
\* without a second request; no exception reaches the caller, and the scene returned is
\* the one of the Local or the Fallback tier, never one mapped from parts of the reply.
C30_ShapelessReplyDemotes ==
  /\ [][(pc = "answered" /\ ShapelessReply(response))
          => (/\ pc' = "local"
              /\ result' = NoScene
              /\ requests' = requests
              /\ caught' = Append(caught, "AttributeError"))]_vars
  /\ []((caught # <<>> /\ caught[1] = "AttributeError")
          => (/\ pc # "raised"
              /\ pc = "done" => (/\ Last(attempts) \in {"Local", "Fallback"}
                                 /\ IsScene(result)
                                 /\ result.description = PyStr(prompt)
                                 /\ result.mood # PyStr("sad"))))
\* a reply without the shape of a scene was received, and the Local tier answered the call
C30_LocalAnsweredShapelessReply ==
  /\ pc = "done"
  /\ attempts = <<"Remote", "Local">>
  /\ caught = <<"AttributeError">>
  /\ IsScene(result)
  /\ prompt = "Alice: \"Hi!\""

\* the texts between quotation marks of the prompt, in order
QuotedTexts == [i \in DOMAIN Matches(pattern3) |-> Group(prompt, Matches(pattern3)[i], 1)]
\* how often the text stands in the sequence
Occurrences(text, texts) == Cardinality({i \in DOMAIN texts : texts[i] = text})

\* C29: in the Local tier each quoted substring of the prompt produces at most one
\* DialogueLine: a text is the text of no more lines than the prompt has quotes of that
\* text, also when a quote is both preceded by Name: and followed by an attribution verb
\* and a name.
C29_OneLinePerQuote ==
  LocalAnswered =>
    \A i \in DOMAIN result.dialogue.v :
      Occurrences(result.dialogue.v[i].text.v, [j \in DOMAIN result.dialogue.v |-> result.dialogue.v[j].text.v])
        <= Occurrences(result.dialogue.v[i].text.v, QuotedTexts)

====
